---- MODULE Spec2Model ----
(***************************************************************************)
(* OSD-XMB artwork resizer (src/main.py).                                  *)
(*                                                                         *)
(* Three specifications over one set of variables:                         *)
(*   TransformSpec  fit_image / fill_image applied to a decoded image      *)
(*   DispatchSpec   one call of process_file on one file                   *)
(*   Spec, FairSpec a whole run: main -> process_art_folder -> os.walk     *)
(*                  -> process_file per matched file -> "Done."            *)
(*                                                                         *)
(* Python floats are IEEE-754 binary64.  The scale factor and the scaled   *)
(* sizes are computed here digit for digit, with the rounding of every     *)
(* division and multiplication.                                            *)
(***************************************************************************)
EXTENDS Integers, Sequences, FiniteSets, TLC

VARIABLES
    pc,          \* position of the program / of the call under study
    argv,        \* parsed command line: [art_folder, background]
    rootKind,    \* what the resolved root path is on disk
    fs,          \* file path -> file content (NoFile when absent)
    fs0,         \* fs as it was before the program started
    exitStatus,  \* process exit status, NoStatus while running
    out,         \* console output, one record per printed message
    walkStack,   \* directories os.walk still has to yield
    curDir,      \* directory of the current os.walk triple
    files,       \* file names of the current triple not yet iterated
    calls,       \* process_file calls made so far: [path, config]
    written,     \* paths on which a write (save) was started
    args,        \* arguments of the call under study (direct calls)
    locals       \* locals and return value of the transform under study

vars == <<pc, argv, rootKind, fs, fs0, exitStatus, out, walkStack, curDir,
          files, calls, written, args, locals>>

(***************************************************************************)
(* Bounds of the explored inputs.                                          *)
(***************************************************************************)
MaxDim   == 4    \* small source and target sides are 1..MaxDim
MaxDepth == 1    \* depth of the directory tree below the root
MaxFiles == 2    \* number of files present in the tree

(***************************************************************************)
(* binary64 arithmetic on the values the transforms meet: positive ints    *)
(* below 2^13 and their quotients and products.  The 53-digit significand  *)
(* is 1 d1 d2 d3 d4 in base 2^13 (the leading 1 is not stored):            *)
(*   Float(<<d1, d2, d3, d4>>, e)  is  (2^52 + d1*2^39 + ... + d4) * 2^e   *)
(***************************************************************************)
Base == 2 ^ 13

\* number of binary digits of x, 1 <= x < 2^16
BitLen(x) == CHOOSE L \in 1..16 : 2 ^ (L - 1) <= x /\ x < 2 ^ L

Float(m, e) == [m |-> m, e |-> e]

\* the next float above
RoundUp(m, e) ==
    IF m[4] + 1 < Base THEN Float(<<m[1], m[2], m[3], m[4] + 1>>, e)
    ELSE IF m[3] + 1 < Base THEN Float(<<m[1], m[2], m[3] + 1, 0>>, e)
    ELSE IF m[2] + 1 < Base THEN Float(<<m[1], m[2] + 1, 0, 0>>, e)
    ELSE IF m[1] + 1 < Base THEN Float(<<m[1] + 1, 0, 0, 0>>, e)
    ELSE Float(<<0, 0, 0, 0>>, e + 1)

\* round to nearest, ties to even: the exact value exceeds Float(m, e) by
\* twice_rest / (2 * unit) units of the last digit
Round(m, e, twice_rest, unit) ==
    IF twice_rest > unit \/ (twice_rest = unit /\ m[4] % 2 = 1)
    THEN RoundUp(m, e) ELSE Float(m, e)

\* N / D for ints with 1 <= N / D < 2, times 2^(e + 52): long division,
\* 13 digits at a time, then rounded by the remainder
Divide(N, D, e) ==
    LET r0 == N - D
        r1 == (r0 * Base) % D
        r2 == (r1 * Base) % D
        r3 == (r2 * Base) % D
        r4 == (r3 * Base) % D
    IN Round(<<(r0 * Base) \div D, (r1 * Base) \div D, (r2 * Base) \div D,
               (r3 * Base) \div D>>, e, 2 * r4, D)

\* n0 / D for ints of the same number of digits, times 2^s
Quotient(n0, D, s) ==
    IF n0 >= D THEN Divide(n0, D, s - 52) ELSE Divide(2 * n0, D, s - 53)

Align(t, d, lt, ld) ==
    IF lt >= ld THEN Quotient(t, d * 2 ^ (lt - ld), lt - ld)
    ELSE Quotient(t * 2 ^ (ld - lt), d, lt - ld)

\* t / d for ints: the correctly rounded quotient
TrueDiv(t, d) == Align(t, d, BitLen(t), BitLen(d))

\* the digits p0 d1 d2 d3 d4 of the exact product n * (1 m1 m2 m3 m4)
Product(n, m) ==
    LET p4 == m[4] * n
        p3 == m[3] * n + p4 \div Base
        p2 == m[2] * n + p3 \div Base
        p1 == m[1] * n + p2 \div Base
    IN <<n + p1 \div Base, p1 % Base, p2 % Base, p3 % Base, p4 % Base>>

\* p * 2^e with p[1] < 2 * lo, lo a power of two: shifted right until the
\* leading digit is 1, then rounded by the digits shifted out
Shift(p, e, lo) ==
    Round(<<(p[1] % lo) * (Base \div lo) + p[2] \div lo,
            (p[2] % lo) * (Base \div lo) + p[3] \div lo,
            (p[3] % lo) * (Base \div lo) + p[4] \div lo,
            (p[4] % lo) * (Base \div lo) + p[5] \div lo>>,
          e, 2 * (p[5] % lo), lo)

Normalize(p, e, sh) == Shift(p, e + sh, 2 ^ sh)

Rounded(p, e) == Normalize(p, e, BitLen(p[1]) - 1)

\* n * f for an int n (converted exactly) and a float f, correctly rounded
IntTimesFloat(n, f) == Rounded(Product(n, f.m), f.e)

FloatLess(a, b) ==
    \/ a.e < b.e
    \/ /\ a.e = b.e
       /\ \E i \in 1..4 : a.m[i] < b.m[i] /\ \A j \in 1..(i - 1) : a.m[j] = b.m[j]

\* builtin min(a, b) / max(a, b): the first argument wins a tie
FloatMin(a, b) == IF FloatLess(b, a) THEN b ELSE a
FloatMax(a, b) == IF FloatLess(a, b) THEN b ELSE a

\* int(f) for a positive float below 2^26: truncation
FloatToInt(f) ==
    LET k == 0 - f.e
        w == k \div 13
        r == 2 ^ (k % 13)
    IN IF w >= 5 THEN 0
       ELSE IF w = 4 THEN 1 \div r
       ELSE IF w = 3 THEN (Base + f.m[1]) \div r
       ELSE ((Base + f.m[1]) * Base + f.m[2]) \div r

(***************************************************************************)
(* Static tables                                                           *)
(***************************************************************************)
TARGET_CONFIG_lowercase ==
    [n \in {"icon0.png", "PIC1.png"} |->
        IF n = "icon0.png" THEN [size |-> <<128, 128>>, mode |-> "fit"]
                           ELSE [size |-> <<640, 448>>, mode |-> "fill"]]

TARGET_CONFIG ==
    [n \in {"ICON0.png", "PIC1.png"} |->
        IF n = "ICON0.png" THEN [size |-> <<128, 128>>, mode |-> "fit"]
                           ELSE [size |-> <<640, 448>>, mode |-> "fill"]]

BACKGROUND_COLORS ==
    [c \in {"transparent", "black", "white"} |->
        IF c = "transparent" THEN <<0, 0, 0, 0>>
        ELSE IF c = "black" THEN <<0, 0, 0, 255>>
        ELSE <<255, 255, 255, 255>>]

Backgrounds == {BACKGROUND_COLORS[c] : c \in DOMAIN BACKGROUND_COLORS}

(***************************************************************************)
(* Images.  An image value has a size, a mode, the state of its pixel data *)
(* (a file whose header decodes but whose data is cut short opens, and     *)
(* fails when the pixels are first loaded) and the provenance of its       *)
(* pixels.                                                                 *)
(***************************************************************************)
Img(w, h, mode, data) ==
    [size |-> <<w, h>>, mode |-> mode, data |-> data, pix |-> [op |-> "decoded"]]

\* Image.resize: the imaging library rejects an empty size
resize_raises(new_w, new_h) == new_w < 1 \/ new_h < 1

\* Image.new('RGBA', target_size, background)
new_canvas(target_size, background) ==
    [size |-> target_size, mode |-> "RGBA", data |-> "ok",
     pix |-> [op |-> "new", fill |-> background]]

\* canvas.paste(resized, (x, y), resized): the box of the pasted image
paste(canvas, new_w, new_h, x, y) ==
    [canvas EXCEPT !.pix = [op |-> "paste", fill |-> canvas.pix.fill,
                            box |-> <<x, y, x + new_w, y + new_h>>]]

\* resized.crop((left, top, right, bottom))
crop(new_w, new_h, left, top, right, bottom) ==
    [size |-> <<right - left, bottom - top>>, mode |-> "RGBA", data |-> "ok",
     pix |-> [op |-> "crop", box |-> <<left, top, right, bottom>>,
              of |-> <<new_w, new_h>>]]

\* where the pixel (px, py) of a transform's result comes from
pixel_source(image, px, py) ==
    IF image.pix.op = "paste"
    THEN IF /\ image.pix.box[1] <= px /\ px < image.pix.box[3]
            /\ image.pix.box[2] <= py /\ py < image.pix.box[4]
         THEN "composite" ELSE "background"
    ELSE IF image.pix.op = "crop"
    THEN IF /\ 0 <= image.pix.box[1] + px /\ image.pix.box[1] + px < image.pix.of[1]
            /\ 0 <= image.pix.box[2] + py /\ image.pix.box[2] + py < image.pix.of[2]
         THEN "resized" ELSE "padding"
    ELSE IF image.pix.op = "new" THEN "background"
    ELSE "decoded"

(***************************************************************************)
(* fit_image and fill_image                                                *)
(***************************************************************************)
fit_scale_max(target_w, img_w, target_h, img_h) ==
    FloatMax(TrueDiv(target_w, img_w), TrueDiv(target_h, img_h))

fit_scale(target_w, img_w, target_h, img_h) ==
    FloatMin(TrueDiv(target_w, img_w), TrueDiv(target_h, img_h))

fill_scale(target_w, img_w, target_h, img_h) ==
    FloatMax(TrueDiv(target_w, img_w), TrueDiv(target_h, img_h))

\* int(img_w * scale)
scaled(n, scale) == FloatToInt(IntTimesFloat(n, scale))

\* (target_w - new_w) // 2
paste_offset(target, new) == (target - new) \div 2

crop_offset_up(new, target) == (new - target + 1) \div 2

\* (new_w - target_w) // 2
crop_offset(new, target) == (new - target) \div 2

crop_end_inclusive(start, target) == start + target - 1

\* right = left + target_w
crop_end(start, target) == start + target

\* fit_image from the resize on, given the scaled size
fit_paste(img, target_size, background, new_w, new_h) ==
    LET x == paste_offset(target_size[1], new_w)
        y == paste_offset(target_size[2], new_h)
    IN IF img.data # "ok"
       THEN [raised |-> "OSError"]
       ELSE IF resize_raises(new_w, new_h)
       THEN [raised |-> "ValueError", new_w |-> new_w, new_h |-> new_h]
       ELSE [raised |-> "None", new_w |-> new_w, new_h |-> new_h,
             x |-> x, y |-> y,
             ret |-> paste(new_canvas(target_size, background), new_w, new_h, x, y)]

fit_image(img, target_size, background) ==
    LET img_w == img.size[1]
        img_h == img.size[2]
        scale == fit_scale(target_size[1], img_w, target_size[2], img_h)
    IN fit_paste(img, target_size, background, scaled(img_w, scale), scaled(img_h, scale))

\* fill_image from the resize on, given the scaled size
fill_crop(img, target_size, new_w, new_h) ==
    LET left   == crop_offset(new_w, target_size[1])
        top    == crop_offset(new_h, target_size[2])
        right  == crop_end(left, target_size[1])
        bottom == crop_end(top, target_size[2])
    IN IF img.data # "ok"
       THEN [raised |-> "OSError"]
       ELSE IF resize_raises(new_w, new_h)
       THEN [raised |-> "ValueError", new_w |-> new_w, new_h |-> new_h]
       ELSE [raised |-> "None", new_w |-> new_w, new_h |-> new_h,
             left |-> left, top |-> top, right |-> right, bottom |-> bottom,
             ret |-> crop(new_w, new_h, left, top, right, bottom)]

fill_image(img, target_size) ==
    LET img_w == img.size[1]
        img_h == img.size[2]
        scale == fill_scale(target_size[1], img_w, target_size[2], img_h)
    IN fill_crop(img, target_size, scaled(img_w, scale), scaled(img_h, scale))

(***************************************************************************)
(* Values of the variables a specification does not use                    *)
(***************************************************************************)
NoFile   == [kind |-> "absent"]
NoStatus == 0 - 1
NoArgs   == [fn |-> "none"]
NoLocals == [raised |-> "pending"]
NoDir    == <<"-">>

(***************************************************************************)
(* TransformSpec: one call of fit_image or fill_image                      *)
(***************************************************************************)
SmallSides  == 1..MaxDim
SourceSizes == (SmallSides \X SmallSides) \cup
               {<<256, 256>>, <<1920, 1080>>, <<129, 1>>, <<77, 54>>,
                <<49, 49>>, <<1, 300>>, <<640, 448>>, <<128, 128>>}
TargetSizes == (SmallSides \X SmallSides) \cup
               {TARGET_CONFIG[n].size : n \in DOMAIN TARGET_CONFIG}

TransformInit ==
    /\ pc = "t_call"
    /\ args \in {[fn |-> "transform", img |-> Img(s[1], s[2], m, "ok"),
                  target_size |-> t, background |-> b] :
                     s \in SourceSizes, m \in {"RGB", "RGBA"},
                     t \in TargetSizes, b \in Backgrounds}
    /\ locals = NoLocals
    /\ argv = NoArgs /\ rootKind = "none" /\ fs = <<>> /\ fs0 = <<>>
    /\ exitStatus = NoStatus /\ out = <<>> /\ walkStack = <<>>
    /\ curDir = NoDir /\ files = <<>> /\ calls = <<>> /\ written = {}

CallFit ==
    /\ pc = "t_call"
    /\ locals' = fit_image(args.img, args.target_size, args.background)
    /\ pc' = "t_fit"
    /\ UNCHANGED <<argv, rootKind, fs, fs0, exitStatus, out, walkStack,
                   curDir, files, calls, written, args>>

CallFill ==
    /\ pc = "t_call"
    /\ locals' = fill_image(args.img, args.target_size)
    /\ pc' = "t_fill"
    /\ UNCHANGED <<argv, rootKind, fs, fs0, exitStatus, out, walkStack,
                   curDir, files, calls, written, args>>

TransformNext == CallFit \/ CallFill

TransformSpec == TransformInit /\ [][TransformNext]_vars

(***************************************************************************)
(* The file tree below the root.  A directory is the sequence of names     *)
(* leading to it from the root: the root, a directory in it, a directory   *)
(* in that one, and so on down to MaxDepth.  All these directories exist;  *)
(* a file path is <<directory, name>>.                                     *)
(***************************************************************************)
Root == <<>>

Chain(k) == [i \in 1..k |-> "a"]

Dirs == {Chain(k) : k \in 0..MaxDepth}

FileNames == {"ICON0.png", "PIC1.png", "icon0.png"}

Paths == Dirs \X FileNames

PNG(image) == [kind |-> "png", image |-> image]
Garbage    == [kind |-> "garbage"]
Partial    == [kind |-> "partial"]

\* os.walk does not recurse: only the top directory is listed
SubdirsNone(d) == {}

\* the directories os.walk descends into from d
Subdirs(d) == {c \in Dirs : Len(c) = Len(d) + 1 /\ SubSeq(c, 1, Len(d)) = d}

\* the non-directory entries of d
FilesIn(tree, d) == {n \in FileNames : tree[<<d, n>>] # NoFile}

\* the orders in which a directory listing may come
Orderings(S) ==
    {s \in [1..Cardinality(S) -> S] : \A i, j \in 1..Cardinality(S) : s[i] = s[j] => i = j}

(***************************************************************************)
(* process_file                                                            *)
(***************************************************************************)
\* what the operating system does with the save
SaveResults == {"ok", "denied", "short"}

CaughtOSErrorOnly(exc) == exc = "OSError"

\* except Exception: every exception raised below is an Exception
Caught(exc) == exc \in {"OSError", "ValueError", "UnidentifiedImageError", "FileNotFoundError"}

transform_default_fill(img, config, background) ==
    IF config.mode = "fit" THEN fit_image(img, config.size, background)
    ELSE fill_image(img, config.size)

\* the selection of the transform by the strategy tag
transform(img, config, background) ==
    IF config.mode = "fit" THEN fit_image(img, config.size, background)
    ELSE IF config.mode = "fill" THEN fill_image(img, config.size)
    ELSE [raised |-> "ValueError"]

\* the images in the files of the runs and calls explored below
CallImages ==
    {Img(s[1], s[2], m, d) :
        s \in {<<256, 256>>, <<129, 1>>, <<1920, 1080>>, <<77, 54>>},
        m \in {"RGB", "RGBA"}, d \in {"ok", "truncated"}}

CallConfigs ==
    {TARGET_CONFIG[n] : n \in DOMAIN TARGET_CONFIG}
    \cup {[size |-> <<128, 128>>, mode |-> "stretch"]}

RunImages == {i \in CallImages : i \in {Img(256, 256, "RGBA", "ok"), Img(129, 1, "RGB", "ok")}}

\* transform is a pure function: its values on the images, configs and
\* backgrounds that the explored calls of process_file can meet
Transforms ==
    {[img |-> i, config |-> c, background |-> b, result |-> transform(i, c, b)] :
        i \in CallImages, c \in CallConfigs, b \in Backgrounds}

transformed(img, config, background) ==
    (CHOOSE t \in Transforms :
        t.img = img /\ t.config = config /\ t.background = background).result

Line(ev, path, info) == [ev |-> ev, path |-> path, info |-> info]

\* The outcome of process_file(file_path, config, background) on the tree
\* `tree`, when the save, if reached, goes as save_result says:
\*   fs       the tree afterwards
\*   started  whether a write to file_path was started
\*   printed  the lines printed
\*   escaped  the exception leaving process_file, "None" when it returns

\* an exception raised in the try block, before any write
failed(tree, file_path, exc, printed) ==
    IF Caught(exc)
    THEN [fs |-> tree, started |-> FALSE, escaped |-> "None",
          printed |-> Append(printed, Line("Error", file_path, exc))]
    ELSE [fs |-> tree, started |-> FALSE, escaped |-> exc, printed |-> printed]

\* the body of the with block once the transform has given r
save(tree, file_path, config, printed, r, save_result) ==
    IF r.raised # "None" THEN failed(tree, file_path, r.raised, printed)
    ELSE IF save_result = "denied" THEN failed(tree, file_path, "OSError", printed)
    ELSE IF save_result = "short"
    THEN [fs |-> [tree EXCEPT ![file_path] = Partial],
          started |-> TRUE,
          escaped |-> IF Caught("OSError") THEN "None" ELSE "OSError",
          printed |-> IF Caught("OSError")
                      THEN Append(printed, Line("Error", file_path, "OSError"))
                      ELSE printed]
    ELSE [fs |-> [tree EXCEPT ![file_path] = PNG(r.ret)],
          started |-> TRUE, escaped |-> "None",
          printed |-> Append(printed, Line("Saved", file_path, config))]

process_file(tree, file_path, config, background, save_result) ==
    IF tree[file_path].kind = "absent"
    THEN failed(tree, file_path, "FileNotFoundError", <<>>)
    ELSE IF tree[file_path].kind # "png"
    THEN failed(tree, file_path, "UnidentifiedImageError", <<>>)
    ELSE save(tree, file_path, config,
              <<Line("Processing", file_path, tree[file_path].image.size)>>,
              transformed(tree[file_path].image, config, background), save_result)

(***************************************************************************)
(* DispatchSpec: one call of process_file on the only file of the tree     *)
(***************************************************************************)
OneFile(path, content) == [p \in Paths |-> IF p = path THEN content ELSE NoFile]

CallPath == <<Root, "ICON0.png">>

CallContents == {PNG(i) : i \in CallImages} \cup {Garbage, NoFile}

DispatchInit ==
    /\ pc = "p_call"
    /\ args \in {[fn |-> "process_file", file_path |-> CallPath, config |-> c,
                  background |-> b] : c \in CallConfigs, b \in Backgrounds}
    /\ fs \in {OneFile(CallPath, c) : c \in CallContents}
    /\ fs0 = fs
    /\ locals = NoLocals
    /\ argv = NoArgs /\ rootKind = "none"
    /\ exitStatus = NoStatus /\ out = <<>> /\ walkStack = <<>>
    /\ curDir = NoDir /\ files = <<>> /\ calls = <<>> /\ written = {}

CallProcessFile ==
    /\ pc = "p_call"
    /\ \E save_result \in SaveResults :
          \E r \in {process_file(fs, args.file_path, args.config, args.background,
                                  save_result)} :
             /\ fs' = r.fs
             /\ out' = out \o r.printed
             /\ written' = IF r.started THEN written \cup {args.file_path} ELSE written
             /\ pc' = IF r.escaped = "None" THEN "p_done" ELSE "p_raised"
    /\ calls' = Append(calls, [path |-> args.file_path, config |-> args.config])
    /\ UNCHANGED <<argv, rootKind, fs0, exitStatus, walkStack, curDir, files,
                   args, locals>>

DispatchNext == CallProcessFile

DispatchSpec == DispatchInit /\ [][DispatchNext]_vars

(***************************************************************************)
(* Spec: a run of the program                                              *)
(***************************************************************************)
RunContents == {PNG(i) : i \in RunImages} \cup {Garbage}

EmptyTree == [p \in Paths |-> NoFile]

Trees ==
    UNION {{[p \in Paths |-> IF p \in S THEN c[p] ELSE NoFile] : c \in [S -> RunContents]} :
              S \in {T \in SUBSET Paths : Cardinality(T) <= MaxFiles}}

Init ==
    /\ pc = "main"
    /\ argv \in [art_folder : {"None", "given"}, background : DOMAIN BACKGROUND_COLORS]
    /\ rootKind \in {"dir", "file", "missing"}
    /\ fs \in IF rootKind = "dir" THEN Trees ELSE {EmptyTree}
    /\ fs0 = fs
    /\ exitStatus = NoStatus /\ out = <<>> /\ walkStack = <<>>
    /\ curDir = NoDir /\ files = <<>> /\ calls = <<>> /\ written = {}
    /\ args = NoArgs /\ locals = NoLocals

\* main: no positional argument and no ART directory in the working directory
MainNoArt ==
    /\ pc = "main"
    /\ argv.art_folder = "None" /\ rootKind # "dir"
    /\ out' = Append(out, Line("NoArtFolder", <<>>, ""))
    /\ exitStatus' = 1
    /\ pc' = "exited"
    /\ UNCHANGED <<argv, rootKind, fs, fs0, walkStack, curDir, files, calls,
                   written, args, locals>>

\* main -> process_art_folder: the given root is not a directory; the
\* function prints and returns, main returns, the interpreter exits normally
MainInvalidRoot ==
    /\ pc = "main"
    /\ argv.art_folder # "None" /\ rootKind # "dir"
    /\ out' = Append(out, Line("NotADirectory", <<>>, ""))
    /\ exitStatus' = 0
    /\ pc' = "exited"
    /\ UNCHANGED <<argv, rootKind, fs, fs0, walkStack, curDir, files, calls,
                   written, args, locals>>

\* main -> process_art_folder: the root is a directory, the walk starts
MainStart ==
    /\ pc = "main"
    /\ rootKind = "dir"
    /\ out' = Append(out, Line("ProcessingArtwork", <<>>, ""))
    /\ walkStack' = <<Root>>
    /\ pc' = "walk"
    /\ UNCHANGED <<argv, rootKind, fs, fs0, exitStatus, curDir, files, calls,
                   written, args, locals>>

main == MainNoArt \/ MainInvalidRoot \/ MainStart

\* os.walk yields the next directory: its listing is read now
WalkDir ==
    /\ pc = "walk" /\ files = <<>> /\ walkStack # <<>>
    /\ LET top == Head(walkStack)
       IN \E nondirs \in Orderings(FilesIn(fs, top)), dirs \in Orderings(Subdirs(top)) :
             /\ curDir' = top
             /\ files' = nondirs
             /\ walkStack' = dirs \o Tail(walkStack)
    /\ UNCHANGED <<pc, argv, rootKind, fs, fs0, exitStatus, out, calls, written,
                   args, locals>>

\* loop body for a file name found in TARGET_CONFIG
Dispatch ==
    /\ pc = "walk" /\ files # <<>>
    /\ Head(files) \in DOMAIN TARGET_CONFIG
    /\ LET filename  == Head(files)
           file_path == <<curDir, filename>>
           config    == TARGET_CONFIG[filename]
       IN /\ \E save_result \in SaveResults :
                \E r \in {process_file(fs, file_path, config,
                                        BACKGROUND_COLORS[argv.background], save_result)} :
                   /\ fs' = r.fs
                   /\ written' = IF r.started THEN written \cup {file_path} ELSE written
                   /\ IF r.escaped = "None"
                      THEN /\ out' = Append(out, Line("Found", file_path, "")) \o r.printed
                           /\ pc' = pc
                           /\ exitStatus' = exitStatus
                      ELSE /\ out' = Append(Append(out, Line("Found", file_path, ""))
                                               \o r.printed,
                                            Line("Traceback", file_path, r.escaped))
                           /\ pc' = "exited"
                           /\ exitStatus' = 1
          /\ calls' = Append(calls, [path |-> file_path, config |-> config])
    /\ files' = Tail(files)
    /\ UNCHANGED <<argv, rootKind, fs0, walkStack, curDir, args, locals>>

\* loop body for any other file name
Skip ==
    /\ pc = "walk" /\ files # <<>>
    /\ Head(files) \notin DOMAIN TARGET_CONFIG
    /\ files' = Tail(files)
    /\ UNCHANGED <<pc, argv, rootKind, fs, fs0, exitStatus, out, walkStack,
                   curDir, calls, written, args, locals>>

\* the walk is exhausted: "Done.", return, exit
Done ==
    /\ pc = "walk" /\ files = <<>> /\ walkStack = <<>>
    /\ out' = Append(out, Line("Done", <<>>, ""))
    /\ exitStatus' = 0
    /\ pc' = "exited"
    /\ UNCHANGED <<argv, rootKind, fs, fs0, walkStack, curDir, files, calls,
                   written, args, locals>>

process_art_folder == WalkDir \/ Dispatch \/ Skip \/ Done

Next == main \/ process_art_folder

Spec == Init /\ [][Next]_vars

\* the program is sequential and never waits: it always takes its next step
FairSpec == Spec /\ WF_vars(Next)

(***************************************************************************)
(* Properties of the transforms (TransformSpec)                            *)
(***************************************************************************)
Returned(where) == pc = where /\ locals.raised = "None"

\* C1: whenever fit_image or fill_image returns an image, that image has
\* exactly the target width and height: the canvas for fit, the crop box
\* (right - left, bottom - top) for fill.
C1_ExactSize ==
    /\ Returned("t_fit") => locals.ret.size = args.target_size
    /\ Returned("t_fill") =>
          /\ locals.ret.size = args.target_size
          /\ locals.right - locals.left = args.target_size[1]
          /\ locals.bottom - locals.top = args.target_size[2]

C1_Witness ==
    /\ Returned("t_fill")
    /\ args.img.size = <<1920, 1080>>
    /\ args.target_size = <<640, 448>>
    /\ locals.ret.size = <<640, 448>>
    /\ locals.left > 0

\* C5: the fit transform keeps the whole resized image inside the canvas
\* (scaled size within the target, paste offsets non-negative, pasted
\* rectangle within the canvas) and every canvas pixel outside the pasted
\* rectangle is the chosen background colour.
C5_FitInside ==
    /\ (pc = "t_fit" /\ locals.raised \in {"None", "ValueError"}) =>
          /\ locals.new_w <= args.target_size[1]
          /\ locals.new_h <= args.target_size[2]
    /\ Returned("t_fit") =>
          /\ locals.x >= 0
          /\ locals.y >= 0
          /\ locals.x + locals.new_w <= args.target_size[1]
          /\ locals.y + locals.new_h <= args.target_size[2]
          /\ locals.ret.pix.fill = args.background
          /\ \A px \in 0..(args.target_size[1] - 1) :
                \A py \in 0..(args.target_size[2] - 1) :
                   ~ ( /\ locals.x <= px /\ px < locals.x + locals.new_w
                       /\ locals.y <= py /\ py < locals.y + locals.new_h )
                   => pixel_source(locals.ret, px, py) = "background"

C5_Witness ==
    /\ Returned("t_fit")
    /\ args.img.size = <<1920, 1080>>
    /\ args.target_size = <<128, 128>>
    /\ args.background = BACKGROUND_COLORS["black"]
    /\ locals.new_w = 128 /\ locals.new_h = 72
    /\ locals.x = 0 /\ locals.y = 28
    /\ pixel_source(locals.ret, 0, 27) = "background"
    /\ pixel_source(locals.ret, 0, 28) = "composite"

\* C6: the crop box of the fill transform lies inside the resized image, so
\* that every output pixel comes from the resized source.
C6_CropInside ==
    Returned("t_fill") =>
        /\ locals.new_w >= args.target_size[1]
        /\ locals.new_h >= args.target_size[2]
        /\ locals.left >= 0
        /\ locals.top >= 0
        /\ locals.right <= locals.new_w
        /\ locals.bottom <= locals.new_h

\* C8: the fill transform crops symmetrically with floor division: on each
\* axis the margin before the box is floor(excess / 2), the margin after it
\* is the rest, the two differ by at most one and are equal for an even
\* excess; 1920x1080 to 640x448 resizes to 796x448 and discards 78, 78, 0, 0.
C8_Margins(new, target, start, end) ==
    LET excess == new - target
        before == start
        after  == new - end
    IN /\ 2 * before <= excess
       /\ excess < 2 * before + 2
       /\ after = excess - before
       /\ after - before \in {0, 1}
       /\ (excess % 2 = 0) => before = after

C8_SymmetricCrop ==
    Returned("t_fill") =>
        /\ C8_Margins(locals.new_w, args.target_size[1], locals.left, locals.right)
        /\ C8_Margins(locals.new_h, args.target_size[2], locals.top, locals.bottom)
        /\ (args.img.size = <<1920, 1080>> /\ args.target_size = <<640, 448>>) =>
              /\ locals.new_w = 796 /\ locals.new_h = 448
              /\ locals.left = 78 /\ locals.new_w - locals.right = 78
              /\ locals.top = 0 /\ locals.new_h - locals.bottom = 0

C8_Witness ==
    /\ Returned("t_fill")
    /\ args.img.size = <<1920, 1080>>
    /\ args.target_size = <<640, 448>>
    /\ locals.new_w = 796
    /\ locals.left = 78

\* C9: for every decoded source image the fit transform has no failing
\* step: both scaled dimensions handed to the resize are at least 1.
C9_FitNeverFails ==
    pc = "t_fit" =>
        /\ locals.raised = "None"
        /\ locals.new_w >= 1
        /\ locals.new_h >= 1

(***************************************************************************)
(* Properties of process_file (DispatchSpec)                               *)
(***************************************************************************)
\* C10: process_file writes a file only after its transform has returned a
\* result.  When the file does not decode, the transform raises or the
\* strategy tag is neither fit nor fill, no write is started and the file
\* is as before; when the call succeeds, the file holds the transform of
\* its original content.
C10_WriteAfterTransform ==
    pc \in {"p_done", "p_raised"} =>
        LET path    == args.file_path
            before  == fs0[path]
            config  == args.config
            decodes == before.kind = "png"
            r       == IF ~decodes THEN [raised |-> "OSError"]
                       ELSE IF config.mode = "fit"
                       THEN fit_image(before.image, config.size, args.background)
                       ELSE IF config.mode = "fill"
                       THEN fill_image(before.image, config.size)
                       ELSE [raised |-> "ValueError"]
            raises  == r.raised # "None"
            saved   == out # <<>> /\ out[Len(out)].ev = "Saved"
        IN /\ raises => (path \notin written /\ fs[path] = before)
           /\ path \in written => ~raises
           /\ saved => (path \in written /\ ~raises /\ fs[path] = PNG(r.ret))

C10_Witness ==
    /\ pc = "p_done"
    /\ args.config.mode = "fit"
    /\ fs0[args.file_path].kind = "png"
    /\ fs0[args.file_path].image.size = <<129, 1>>
    /\ fs0[args.file_path].image.data = "ok"
    /\ out[Len(out)] = Line("Error", args.file_path, "ValueError")
    /\ written = {}
    /\ fs = fs0

(***************************************************************************)
(* Properties of a run (Spec, FairSpec)                                    *)
(***************************************************************************)
MatchedNames == {"ICON0.png", "PIC1.png"}

MatchedFiles == {p \in Paths : p[2] \in MatchedNames /\ fs0[p] # NoFile}

CallsFor(p) == {i \in 1..Len(calls) : calls[i].path = p}

Events(ev) == {i \in 1..Len(out) : out[i].ev = ev}

\* C2: the run ends with a non-zero exit status exactly when the resolved
\* root path is not a directory.
C2_ExitStatus ==
    pc = "exited" => ((exitStatus # 0) <=> (rootKind # "dir"))

\* C3: in a run over a valid root every ICON0.png and PIC1.png of the tree,
\* at every depth, is dispatched to process_file exactly once, with the
\* config of its own name, whatever failed on the files before it.
C3_EachMatchedOnce ==
    /\ \A i \in 1..Len(calls) :
          /\ calls[i].path \in MatchedFiles
          /\ calls[i].config = TARGET_CONFIG[calls[i].path[2]]
          /\ CallsFor(calls[i].path) = {i}
    /\ (pc = "exited" /\ rootKind = "dir") =>
          \A p \in MatchedFiles : Cardinality(CallsFor(p)) = 1

C3_Witness ==
    /\ pc = "exited"
    /\ Len(calls) = 2
    /\ Len(calls[1].path[1]) # Len(calls[2].path[1])
    /\ \E i \in Events("Error") : out[i].path = calls[1].path
    /\ \E j \in Events("Saved") : out[j].path = calls[2].path

\* C4: a file whose name is not ICON0.png or PIC1.png is never opened and
\* never written: its content stays what it was, and the only paths written
\* are paths of matched files.
C4_UnmatchedUntouched ==
    /\ \A p \in Paths : p[2] \notin MatchedNames => fs[p] = fs0[p]
    /\ \A p \in Paths : fs[p] # fs0[p] => p \in written
    /\ \A p \in written : p \in MatchedFiles
    /\ \A i \in 1..Len(calls) : calls[i].path[2] \in MatchedNames

C4_Witness ==
    /\ pc = "exited"
    /\ \E p \in Paths, q \in written :
          /\ p[2] = "icon0.png"
          /\ fs0[p] # NoFile
          /\ q[1] = p[1]
          /\ fs[q] # fs0[q]

\* C7: a run that passed the startup validation terminates, and prints
\* "Done." exactly once, as its last line, after the dispatch of every
\* matched file has returned, whatever the number of files and of failures.
C7_DoneState ==
    /\ pc # "exited" => Events("Done") = {}
    /\ (pc = "exited" /\ rootKind = "dir") =>
          /\ Events("Done") = {Len(out)}
          /\ Len(calls) = Cardinality(MatchedFiles)
          /\ \A i \in 1..Len(calls) :
                \E j \in Events("Saved") \cup Events("Error") :
                    out[j].path = calls[i].path

C7_DoneLast ==
    /\ [](pc = "walk" => <>(pc = "exited"))
    /\ []C7_DoneState

C7_Witness ==
    /\ pc = "exited"
    /\ out[Len(out)].ev = "Done"
    /\ Len(calls) = 2
    /\ Cardinality(Events("Error")) = 2

====
